---- MODULE Spec2Model ----
(***************************************************************************)
(* Model of src/src/DVDScreensaver.jsx: the bouncing-logo component.       *)
(*                                                                         *)
(* Lengths are exact rationals, counted in units of 1/124 pixel: the       *)
(* smallest unit in which SPEED (0.75 px), LOGO_WIDTH (200 px),            *)
(* LOGO_HEIGHT (200 / (744/300) = 2500/31 px) and every whole-pixel        *)
(* container size are integers.  (The program computes in IEEE doubles;    *)
(* the rounding of LOGO_HEIGHT, about 1e-14 px, is not modelled.)          *)
(*                                                                         *)
(* React (an external library) is modelled by its contract for a           *)
(* concurrent root: a state update made by a handler is rendered and       *)
(* committed, and the effects whose dependencies changed are cleaned up    *)
(* and run again, before the next event handler or animation-frame         *)
(* callback runs.  Each action below is one handler together with that     *)
(* commit.                                                                 *)
(***************************************************************************)
EXTENDS Integers, Sequences, FiniteSets, TLC

(* ------------------------------ bounds --------------------------------- *)

\* Number of animation frames (ticks) a behaviour runs for.
MaxTicks == 5

\* Units per pixel.
Scale == 4 * 31

Px(n) == n * Scale

\* Container sizes (width, height), in pixels, that the viewport measurement
\* reports: large (maxX = 300 px, maxY = 219.35 px: the start position is
\* inside and far from every corner), roomy (maxX = 15 px, maxY = 14.35 px),
\* tiny (maxX = 2 px, maxY = 1.35 px), narrower than the logo but wider than
\* half of it, and narrower than half of it.
Sizes ==
    { [width |-> Px(500), height |-> Px(300)],
      [width |-> Px(215), height |-> Px(95)],
      [width |-> Px(202), height |-> Px(82)],
      [width |-> Px(150), height |-> Px(60)],
      [width |-> Px(50),  height |-> Px(40)] }

\* Keys the keyboard can report: the two mapped keys and one other.
Keys == {"c", "d", "x"}

(* ----------------------------- constants ------------------------------- *)

SPEED == (3 * Scale) \div 4
LOGO_WIDTH == 200 * Scale
LOGO_HEIGHT == (LOGO_WIDTH * 300) \div 744
CORNER_THRESHOLD == 6 * Scale

\* rafRef.current = null (falsy); requestAnimationFrame handles are > 0.
null == 0

Abs(v) == IF v < 0 THEN -v ELSE v

(* ------------------------------- state --------------------------------- *)

VARIABLES
    containerSize,      \* useState: {width, height}
    renderPos,          \* useState: {x, y}
    debug,              \* useState: boolean
    debugLines,         \* useState: list of debug annotations
    posRef,             \* useRef: {x, y}
    dirRef,             \* useRef: {x, y}
    lastBounceTimeRef,  \* useRef: time of the last bounce
    rafRef,             \* useRef: handle of the last requested frame
    frames,             \* the host's pending animation-frame callbacks
    mounted,            \* the component is mounted (listeners registered)
    now,                \* performance.now(), counted in frames
    lastOp,             \* history: the handler that ran last
    tick,               \* history: what the last animate() call computed
    bursts,             \* history: confetti() calls made by the last handler
    twin                \* a second run of the component (SpecTwin only)

prog == << containerSize, renderPos, debug, debugLines, posRef, dirRef,
           lastBounceTimeRef, rafRef, frames, mounted, now, lastOp, tick,
           bursts >>

vars == << prog, twin >>

\* The component's state as one record, so that every handler is an
\* operator from a state to the state it leaves.
State ==
    [ containerSize |-> containerSize, renderPos |-> renderPos,
      debug |-> debug, debugLines |-> debugLines, posRef |-> posRef,
      dirRef |-> dirRef, lastBounceTimeRef |-> lastBounceTimeRef,
      rafRef |-> rafRef, frames |-> frames, mounted |-> mounted,
      now |-> now, lastOp |-> lastOp, tick |-> tick, bursts |-> bursts ]

Becomes(S) ==
    /\ containerSize' = S.containerSize
    /\ renderPos' = S.renderPos
    /\ debug' = S.debug
    /\ debugLines' = S.debugLines
    /\ posRef' = S.posRef
    /\ dirRef' = S.dirRef
    /\ lastBounceTimeRef' = S.lastBounceTimeRef
    /\ rafRef' = S.rafRef
    /\ frames' = S.frames
    /\ mounted' = S.mounted
    /\ now' = S.now
    /\ lastOp' = S.lastOp
    /\ tick' = S.tick
    /\ bursts' = S.bursts

(* --------------------------- animate: physics -------------------------- *)

\* Rebond without the clamp to max.
RebondNoClampMax(v, d, max) ==
    IF v <= 0 THEN [v |-> 0, d |-> d * (-1), bounced |-> TRUE]
    ELSE IF v >= max THEN [v |-> v, d |-> d * (-1), bounced |-> TRUE]
    ELSE [v |-> v, d |-> d, bounced |-> FALSE]

\* Rebond turning round one step before max.
RebondOneStepEarly(v, d, max) ==
    IF v <= 0 THEN [v |-> 0, d |-> d * (-1), bounced |-> TRUE]
    ELSE IF v >= max - SPEED THEN [v |-> IF v >= max THEN max ELSE v,
                                   d |-> d * (-1), bounced |-> TRUE]
    ELSE [v |-> v, d |-> d, bounced |-> FALSE]

\* Rebond with "dx -= 1" for "dx *= -1".
RebondDecrement(v, d, max) ==
    IF v <= 0 THEN [v |-> 0, d |-> d - 1, bounced |-> TRUE]
    ELSE IF v >= max THEN [v |-> max, d |-> d - 1, bounced |-> TRUE]
    ELSE [v |-> v, d |-> d, bounced |-> FALSE]

\* Rebond guarded against a zone narrower than the logo.
RebondSkipsDegenerate(v, d, max) ==
    IF max < 0 THEN [v |-> v, d |-> d, bounced |-> FALSE]
    ELSE IF v <= 0 THEN [v |-> 0, d |-> d * (-1), bounced |-> TRUE]
    ELSE IF v >= max THEN [v |-> max, d |-> d * (-1), bounced |-> TRUE]
    ELSE [v |-> v, d |-> d, bounced |-> FALSE]

\* One axis of "Rebonds": v is the advanced coordinate, d the direction.
Rebond(v, d, max) ==
    IF v <= 0 THEN [v |-> 0, d |-> d * (-1), bounced |-> TRUE]
    ELSE IF v >= max THEN [v |-> max, d |-> d * (-1), bounced |-> TRUE]
    ELSE [v |-> v, d |-> d, bounced |-> FALSE]

\* The four corners of the zone, in the order of the source's array.
Corners(maxX, maxY) ==
    << [x |-> 0, y |-> 0], [x |-> maxX, y |-> 0],
       [x |-> 0, y |-> maxY], [x |-> maxX, y |-> maxY] >>

\* nearCorner with "or" for "and".
nearCornerEitherAxis(x, y, c) ==
    \/ Abs(x - c.x) <= CORNER_THRESHOLD
    \/ Abs(y - c.y) <= CORNER_THRESHOLD

nearCorner(x, y, c) ==
    /\ Abs(x - c.x) <= CORNER_THRESHOLD
    /\ Abs(y - c.y) <= CORNER_THRESHOLD

\* A corner confetti() whose origin forgets to halve the logo's extent.
CornerConfettiFullExtent(c, size) ==
    [ particleCount |-> 100, spread |-> 60,
      origin |-> [ xn |-> c.x + LOGO_WIDTH, xd |-> size.width,
                   yn |-> c.y + LOGO_HEIGHT, yd |-> size.height ] ]

\* The options of one corner confetti() call.  origin.x is the fraction
\* xn / xd and origin.y the fraction yn / yd.
CornerConfetti(c, size) ==
    [ particleCount |-> 100, spread |-> 60,
      origin |-> [ xn |-> c.x + LOGO_WIDTH \div 2, xd |-> size.width,
                   yn |-> c.y + LOGO_HEIGHT \div 2, yd |-> size.height ] ]

\* A loop over the corners that stops at the first near corner.
CornerBurstsFirstOnly(x, y, maxX, maxY, size) ==
    LET cs == Corners(maxX, maxY)
        near == {j \in 1..4 : nearCorner(x, y, cs[j])}
    IN  IF near = {} THEN << >>
        ELSE << CornerConfetti(cs[CHOOSE j \in near : \A k \in near : j <= k], size) >>

\* The confetti() calls of the loop over the corners, in order.
CornerBursts(x, y, maxX, maxY, size) ==
    LET cs == Corners(maxX, maxY)
        one(c) == IF nearCorner(x, y, c) THEN << CornerConfetti(c, size) >>
                  ELSE << >>
    IN  one(cs[1]) \o one(cs[2]) \o one(cs[3]) \o one(cs[4])

\* The debug collection dbg: dashed line from the leading vertex of the logo
\* to the targeted viewport corner, the angle label at its middle, and the
\* direction ray.  The angle itself (acos, toFixed) and the colours derived
\* from it are not modelled.
DebugCollection(x, y, dx, dy, size) ==
    LET sourceLogo ==
            IF dx > 0 /\ dy > 0 THEN [x |-> x + LOGO_WIDTH, y |-> y + LOGO_HEIGHT]
            ELSE IF dx > 0 /\ dy < 0 THEN [x |-> x + LOGO_WIDTH, y |-> y]
            ELSE IF dx < 0 /\ dy > 0 THEN [x |-> x, y |-> y + LOGO_HEIGHT]
            ELSE [x |-> x, y |-> y]
        targetScreen ==
            IF dx > 0 /\ dy > 0 THEN [x |-> size.width, y |-> size.height]
            ELSE IF dx > 0 /\ dy < 0 THEN [x |-> size.width, y |-> 0]
            ELSE IF dx < 0 /\ dy > 0 THEN [x |-> 0, y |-> size.height]
            ELSE [x |-> 0, y |-> 0]
    IN  << [type |-> "line", from |-> sourceLogo, to |-> targetScreen],
           [type |-> "text", from |-> sourceLogo, to |-> targetScreen],
           [type |-> "line", from |-> sourceLogo,
            to |-> [x |-> sourceLogo.x + dx * Px(300),
                    y |-> sourceLogo.y + dy * Px(300)]] >>

\* An advance that forgets the speed: "x += dx".
AdvanceUnscaled(size, pos, dir) ==
    LET maxX == size.width - LOGO_WIDTH
        maxY == size.height - LOGO_HEIGHT
        ax == pos.x + dir.x
        ay == pos.y + dir.y
        rx == Rebond(ax, dir.x, maxX)
        ry == Rebond(ay, dir.y, maxY)
    IN  [ maxX |-> maxX, maxY |-> maxY,
          fromX |-> pos.x, fromY |-> pos.y,
          advX |-> ax, advY |-> ay,
          x |-> rx.v, y |-> ry.v, dx |-> rx.d, dy |-> ry.d,
          bounced |-> rx.bounced \/ ry.bounced,
          bursts |-> CornerBursts(rx.v, ry.v, maxX, maxY, size) ]

\* An advance whose y test hangs on the x test by an "else": one axis
\* rebounds per tick.
AdvanceOneAxisPerTick(size, pos, dir) ==
    LET maxX == size.width - LOGO_WIDTH
        maxY == size.height - LOGO_HEIGHT
        ax == pos.x + dir.x * SPEED
        ay == pos.y + dir.y * SPEED
        rx == Rebond(ax, dir.x, maxX)
        ry == IF rx.bounced THEN [v |-> ay, d |-> dir.y, bounced |-> FALSE]
              ELSE Rebond(ay, dir.y, maxY)
    IN  [ maxX |-> maxX, maxY |-> maxY,
          fromX |-> pos.x, fromY |-> pos.y,
          advX |-> ax, advY |-> ay,
          x |-> rx.v, y |-> ry.v, dx |-> rx.d, dy |-> ry.d,
          bounced |-> rx.bounced \/ ry.bounced,
          bursts |-> CornerBursts(rx.v, ry.v, maxX, maxY, size) ]

\* animate() from its first line to the loop over the corners: the bounds,
\* the advance, the rebounds and the confetti() calls, for the captured
\* containerSize.
Advance(size, pos, dir) ==
    LET maxX == size.width - LOGO_WIDTH
        maxY == size.height - LOGO_HEIGHT
        ax == pos.x + dir.x * SPEED
        ay == pos.y + dir.y * SPEED
        rx == Rebond(ax, dir.x, maxX)
        ry == Rebond(ay, dir.y, maxY)
    IN  [ maxX |-> maxX, maxY |-> maxY,
          fromX |-> pos.x, fromY |-> pos.y,
          advX |-> ax, advY |-> ay,
          x |-> rx.v, y |-> ry.v, dx |-> rx.d, dy |-> ry.d,
          bounced |-> rx.bounced \/ ry.bounced,
          bursts |-> CornerBursts(rx.v, ry.v, maxX, maxY, size) ]

\* An animate() that fires no corner confetti while debug is on.
animateQuietInDebug(env, pos, dir) ==
    LET a == Advance(env.containerSize, pos, dir)
    IN  [ phys |-> [a EXCEPT !.bursts = IF env.debug THEN << >> ELSE @],
          dbg |-> DebugCollection(a.x, a.y, a.dx, a.dy, env.containerSize) ]

\* The body of animate() up to the writes: env is what the closure captured
\* (containerSize, debug, debugLines.length) when its effect ran.
animate(env, pos, dir) ==
    LET a == Advance(env.containerSize, pos, dir)
    IN  [ phys |-> a,
          dbg |-> DebugCollection(a.x, a.y, a.dx, a.dy, env.containerSize) ]

\* The end of animate() without the branch that empties debugLines.
DebugLinesNeverCleared(env, dbg, lines) ==
    IF env.debug THEN dbg ELSE lines

\* setDebugLines at the end of animate(): the value of debugLines after it.
DebugLinesAfter(env, dbg, lines) ==
    IF env.debug THEN dbg
    ELSE IF env.debugLinesLength # 0 THEN << >>
    ELSE lines

(* ------------------------ the animation-loop effect -------------------- *)

\* What the animate closure created by a render captures.
Env(size, dbgFlag, lines) ==
    [containerSize |-> size, debug |-> dbgFlag, debugLinesLength |-> Len(lines)]

\* requestAnimationFrame's handle: one that no pending callback and no
\* reference holds (handles are opaque; only their equality is observed).
FreshHandle(fr, raf) ==
    CHOOSE n \in 1..(Cardinality(fr) + 2) :
        /\ n # raf
        /\ \A f \in fr : f.id # n

\* rafRef.current = requestAnimationFrame(animate), animate being the closure
\* with captures env; torn records whether that closure's loop was torn down.
Request(fr, raf, env, torn) ==
    LET h == FreshHandle(fr, raf)
    IN  [frames |-> fr \cup {[id |-> h, env |-> env, torn |-> torn]},
         rafRef |-> h]

\* A cleanup that cancels nothing.
CleanupCancelsNothing(fr, raf) ==
    {[f EXCEPT !.torn = TRUE] : f \in fr}

\* The effect's cleanup: if (rafRef.current) cancelAnimationFrame(...).
\* Callbacks it leaves pending belong to a loop that has been torn down.
Cleanup(fr, raf) ==
    LET left == IF raf # null THEN {f \in fr : f.id # raf} ELSE fr
    IN  {[f EXCEPT !.torn = TRUE] : f \in left}

\* A dependency array without the container size: [debug].
DepsWithoutSize(size, dbgFlag) == << dbgFlag >>

\* The dependency array [containerSize.width, containerSize.height, debug].
Deps(size, dbgFlag) == << size.width, size.height, dbgFlag >>

\* An effect that returns no cleanup: a changed dependency starts a second
\* loop beside the first.
LoopAfterCommitWithoutCleanup(S, size, dbgFlag) ==
    IF Deps(size, dbgFlag) # Deps(S.containerSize, S.debug)
    THEN Request(S.frames, S.rafRef, Env(size, dbgFlag, S.debugLines), FALSE)
    ELSE [frames |-> S.frames, rafRef |-> S.rafRef]

\* An effect that cleans up on a changed dependency and starts no new loop.
LoopAfterCommitWithoutRestart(S, size, dbgFlag) ==
    IF Deps(size, dbgFlag) # Deps(S.containerSize, S.debug)
    THEN [frames |-> Cleanup(S.frames, S.rafRef), rafRef |-> S.rafRef]
    ELSE [frames |-> S.frames, rafRef |-> S.rafRef]

\* The commit of a render of state S in which containerSize and debug get
\* the given values: the loop effect is cleaned up and run again iff a
\* dependency changed.  Yields the pending callbacks and rafRef.
LoopAfterCommit(S, size, dbgFlag) ==
    IF Deps(size, dbgFlag) # Deps(S.containerSize, S.debug)
    THEN Request(Cleanup(S.frames, S.rafRef), S.rafRef,
                 Env(size, dbgFlag, S.debugLines), FALSE)
    ELSE [frames |-> S.frames, rafRef |-> S.rafRef]

(* ------------------------------ handlers ------------------------------- *)

\* An animate() that renders the position the tick started from.
FrameRendersPreviousPosition(S, f) ==
    LET r == animate(f.env, S.posRef, S.dirRef)
        a == r.phys
        q == Request(S.frames \ {f}, S.rafRef, f.env, f.torn)
        t == S.now + 1
    IN  [ S EXCEPT
            !.now = t,
            !.posRef = [x |-> a.x, y |-> a.y],
            !.dirRef = [x |-> a.dx, y |-> a.dy],
            !.lastBounceTimeRef = IF a.bounced THEN t ELSE @,
            !.renderPos = IF S.mounted THEN S.posRef ELSE @,
            !.debugLines = IF S.mounted THEN DebugLinesAfter(f.env, r.dbg, @) ELSE @,
            !.frames = q.frames,
            !.rafRef = q.rafRef,
            !.bursts = a.bursts,
            !.tick = [ maxX |-> a.maxX, maxY |-> a.maxY,
                       fromX |-> a.fromX, fromY |-> a.fromY,
                       advX |-> a.advX, advY |-> a.advY,
                       bounced |-> a.bounced, bursts |-> a.bursts,
                       env |-> f.env, torn |-> f.torn ],
            !.lastOp = "tick" ]

\* The host runs the pending animation-frame callback f: animate() from its
\* first line to requestAnimationFrame(animate).  The setState calls reach
\* a mounted component only.
Frame(S, f) ==
    LET r == animate(f.env, S.posRef, S.dirRef)
        a == r.phys
        q == Request(S.frames \ {f}, S.rafRef, f.env, f.torn)
        t == S.now + 1
    IN  [ S EXCEPT
            !.now = t,
            !.posRef = [x |-> a.x, y |-> a.y],
            !.dirRef = [x |-> a.dx, y |-> a.dy],
            !.lastBounceTimeRef = IF a.bounced THEN t ELSE @,
            !.renderPos = IF S.mounted THEN [x |-> a.x, y |-> a.y] ELSE @,
            !.debugLines = IF S.mounted THEN DebugLinesAfter(f.env, r.dbg, @) ELSE @,
            !.frames = q.frames,
            !.rafRef = q.rafRef,
            !.bursts = a.bursts,
            !.tick = [ maxX |-> a.maxX, maxY |-> a.maxY,
                       fromX |-> a.fromX, fromY |-> a.fromY,
                       advX |-> a.advX, advY |-> a.advY,
                       bounced |-> a.bounced, bursts |-> a.bursts,
                       env |-> f.env, torn |-> f.torn ],
            !.lastOp = "tick" ]

\* updateSize() that also puts the logo back at its start position.
updateSizeResetsPosition(S, rect) ==
    LET size == [width |-> rect.width, height |-> rect.height]
        c == LoopAfterCommit(S, size, S.debug)
    IN  [ S EXCEPT
            !.containerSize = size,
            !.posRef = [x |-> Px(150), y |-> Px(150)],
            !.frames = c.frames,
            !.rafRef = c.rafRef,
            !.bursts = << >>,
            !.lastOp = "resize" ]

\* updateSize() with the measured rectangle rect, and the commit it causes.
updateSize(S, rect) ==
    LET size == [width |-> rect.width, height |-> rect.height]
        c == LoopAfterCommit(S, size, S.debug)
    IN  [ S EXCEPT
            !.containerSize = size,
            !.frames = c.frames,
            !.rafRef = c.rafRef,
            !.bursts = << >>,
            !.lastOp = "resize" ]

\* The options of the manual confetti() call: origin {x: 0.5, y: 0.5}.
KeyConfetti ==
    [ particleCount |-> 100, spread |-> 70,
      origin |-> [xn |-> 1, xd |-> 2, yn |-> 1, yd |-> 2] ]

\* A handleKey whose last branch is a plain "else": every key but c toggles.
handleKeyElseToggles(S, key) ==
    LET newDebug == IF key = "c" THEN S.debug ELSE ~S.debug
        c == LoopAfterCommit(S, S.containerSize, newDebug)
    IN  [ S EXCEPT
            !.bursts = IF key = "c" THEN << KeyConfetti >> ELSE << >>,
            !.debug = newDebug,
            !.frames = c.frames,
            !.rafRef = c.rafRef,
            !.lastOp = "key_" \o key ]

\* handleKey(e) with e.key = key, and the commit it causes.
handleKey(S, key) ==
    LET newDebug == IF key = "c" THEN S.debug
                    ELSE IF key = "d" THEN ~S.debug
                    ELSE S.debug
        c == LoopAfterCommit(S, S.containerSize, newDebug)
    IN  [ S EXCEPT
            !.bursts = IF key = "c" THEN << KeyConfetti >> ELSE << >>,
            !.debug = newDebug,
            !.frames = c.frames,
            !.rafRef = c.rafRef,
            !.lastOp = "key_" \o key ]

\* The unmount: the listeners are removed and the loop effect is cleaned up.
Unmounted(S) ==
    [ S EXCEPT
        !.mounted = FALSE,
        !.frames = Cleanup(S.frames, S.rafRef),
        !.bursts = << >>,
        !.lastOp = "unmount" ]

(* ------------------------------ actions -------------------------------- *)

NoTick ==
    [ maxX |-> 0, maxY |-> 0, fromX |-> 0, fromY |-> 0, advX |-> 0, advY |-> 0,
      bounced |-> FALSE, bursts |-> << >>,
      env |-> Env([width |-> 0, height |-> 0], FALSE, << >>), torn |-> FALSE ]

\* The state after the mount with the container measured as size: first
\* render, the three effects run, the initial updateSize() committed.
Mounted(size) ==
    [ containerSize |-> size,
      renderPos |-> [x |-> Px(150), y |-> Px(150)],
      debug |-> FALSE,
      debugLines |-> << >>,
      posRef |-> [x |-> Px(150), y |-> Px(150)],
      dirRef |-> [x |-> 1, y |-> 1],
      lastBounceTimeRef |-> 0,
      rafRef |-> 1,
      frames |-> {[id |-> 1, env |-> Env(size, FALSE, << >>), torn |-> FALSE]},
      mounted |-> TRUE,
      now |-> 0,
      lastOp |-> "mount",
      tick |-> NoTick,
      bursts |-> << >> ]

Is(S) ==
    /\ containerSize = S.containerSize
    /\ renderPos = S.renderPos
    /\ debug = S.debug
    /\ debugLines = S.debugLines
    /\ posRef = S.posRef
    /\ dirRef = S.dirRef
    /\ lastBounceTimeRef = S.lastBounceTimeRef
    /\ rafRef = S.rafRef
    /\ frames = S.frames
    /\ mounted = S.mounted
    /\ now = S.now
    /\ lastOp = S.lastOp
    /\ tick = S.tick
    /\ bursts = S.bursts

Init ==
    /\ \E size \in Sizes : Is(Mounted(size))
    /\ twin = << >>

\* An animation frame: the host runs one pending callback.
Tick ==
    /\ now < MaxTicks
    /\ \E f \in frames : Becomes(Frame(State, f))
    /\ UNCHANGED twin

\* The window's resize event.
Resize ==
    /\ mounted
    /\ \E rect \in Sizes : Becomes(updateSize(State, rect))
    /\ UNCHANGED twin

\* The window's keydown event.
KeyDown ==
    /\ mounted
    /\ \E key \in Keys : Becomes(handleKey(State, key))
    /\ UNCHANGED twin

\* React unmounts the component.
Unmount ==
    /\ mounted
    /\ Becomes(Unmounted(State))
    /\ UNCHANGED twin

Next ==
    \/ Tick
    \/ Resize
    \/ KeyDown
    \/ Unmount

Spec == Init /\ [][Next]_vars

(* ------------------- two runs with the same frames and sizes ----------- *)

\* The sizes of the two-run specification: large, roomy, tiny.
TwinSizes == {size \in Sizes : size.width > LOGO_WIDTH /\ size.height > LOGO_HEIGHT}

\* Two components receive the same animation frames and resize events; each
\* receives its own presses of the debug key.
InitTwin ==
    \E size \in TwinSizes :
        /\ Is(Mounted(size))
        /\ twin = Mounted(size)

TwinTick ==
    /\ now < MaxTicks
    /\ \E f \in frames : Becomes(Frame(State, f))
    /\ \E g \in twin.frames : twin' = Frame(twin, g)

TwinResize ==
    /\ mounted
    /\ \E rect \in TwinSizes :
        /\ Becomes(updateSize(State, rect))
        /\ twin' = updateSize(twin, rect)

TwinDebugKeyFirst ==
    /\ mounted
    /\ Becomes(handleKey(State, "d"))
    /\ UNCHANGED twin

TwinDebugKeySecond ==
    /\ twin.mounted
    /\ twin' = handleKey(twin, "d")
    /\ UNCHANGED prog

NextTwin ==
    \/ TwinTick
    \/ TwinResize
    \/ TwinDebugKeyFirst
    \/ TwinDebugKeySecond

SpecTwin == InitTwin /\ [][NextTwin]_vars

(* ----------------------- the loop under fair frames --------------------- *)

\* An animation frame with the clock counting frames modulo 2: a behaviour
\* may run for any number of frames (the time of a bounce is 1 or 2).
LiveTick ==
    /\ \E f \in frames :
        \E S \in {[Frame(State, f) EXCEPT !.now = (now + 1) % 2]} : Becomes(S)
    /\ UNCHANGED twin

\* The sizes of the fair specification: tiny, and narrower than the logo.
LiveSizes ==
    {size \in Sizes : size.width < Px(215) /\ 2 * size.width >= LOGO_WIDTH}

LiveResize ==
    /\ mounted
    /\ \E rect \in LiveSizes : Becomes(updateSize(State, rect))
    /\ UNCHANGED twin

NextLive ==
    \/ LiveTick
    \/ LiveResize
    \/ KeyDown
    \/ Unmount

InitLive ==
    /\ \E size \in LiveSizes : Is(Mounted(size))
    /\ twin = << >>

\* A frame has run: the parity of the clock changed.  Among the steps of
\* NextLive only LiveTick changes now, and LiveTick is enabled exactly when
\* a callback is pending, so this is LiveTick seen from outside.
FrameRuns ==
    /\ frames # {}
    /\ now' = (now + 1) % 2

\* The host runs a pending animation-frame callback at its next frame: a
\* callback that stays pending is eventually run.
SpecLive == InitLive /\ [][NextLive]_vars /\ WF_now(FrameRuns)

(* ------------------- viewports larger than the logo ------------------- *)

\* The component mounted in a viewport larger than the logo.
InitRoomy ==
    /\ \E size \in TwinSizes : Is(Mounted(size))
    /\ twin = << >>

\* The window's "resize" event, the viewport staying larger than the logo.
ResizeRoomy ==
    /\ mounted
    /\ \E rect \in TwinSizes : Becomes(updateSize(State, rect))
    /\ UNCHANGED twin

NextRoomy ==
    \/ Tick
    \/ ResizeRoomy
    \/ KeyDown
    \/ Unmount

\* Every interleaving in which maxX > 0 and maxY > 0 throughout.
SpecRoomy == InitRoomy /\ [][NextRoomy]_vars

(* ------------------------------- claims -------------------------------- *)

\* C1: whenever the bounds a tick used satisfy maxX >= 0 and maxY >= 0, the
\* position stored at the end of that tick lies in [0, maxX] x [0, maxY],
\* also on the first tick after a resize that left the position outside.
C1_PositionWithinBounds ==
    (lastOp = "tick" /\ tick.maxX >= 0 /\ tick.maxY >= 0)
        => /\ 0 <= posRef.x /\ posRef.x <= tick.maxX
           /\ 0 <= posRef.y /\ posRef.y <= tick.maxY

\* A tick after an earlier tick and a resize: it started right of the new
\* maxX and below the new maxY, with non-degenerate bounds.
C1_Witness ==
    /\ lastOp = "tick" /\ now >= 2
    /\ tick.maxX >= 0 /\ tick.maxY >= 0
    /\ tick.fromX > tick.maxX /\ tick.fromY > tick.maxY
    /\ tick.fromX < Px(150)

\* C2: a velocity component changes only by a sign inversion, only in a tick,
\* and only when that axis's advanced coordinate is <= 0 or >= its max; a
\* resize, a key press or a loop restart changes neither component.
C2_VelocityChangesOnlyOnContact ==
    [][ /\ dirRef'.x # dirRef.x =>
            /\ now' = now + 1 /\ lastOp' = "tick"
            /\ dirRef'.x = -dirRef.x
            /\ (tick'.advX <= 0 \/ tick'.advX >= tick'.maxX)
        /\ dirRef'.y # dirRef.y =>
            /\ now' = now + 1 /\ lastOp' = "tick"
            /\ dirRef'.y = -dirRef.y
            /\ (tick'.advY <= 0 \/ tick'.advY >= tick'.maxY) ]_vars

\* A tick in which x bounced off 0 while y moved freely inside its range.
C2_Witness ==
    /\ lastOp = "tick"
    /\ tick.advX <= 0 /\ dirRef.x = 1
    /\ 0 < tick.advY /\ tick.advY < tick.maxY
    /\ tick.maxX > 0

\* C3: each velocity component is -1 or +1 in every state, so the advance of
\* a tick moves each coordinate by exactly SPEED before clamping.
C3_UnitVelocity ==
    /\ dirRef.x \in {-1, 1}
    /\ dirRef.y \in {-1, 1}
    /\ lastOp = "tick" =>
        /\ Abs(tick.advX - tick.fromX) = SPEED
        /\ Abs(tick.advY - tick.fromY) = SPEED

\* After bounces: x heading left, y heading down again.
C3_Witness ==
    /\ lastOp = "tick" /\ tick.bounced
    /\ dirRef = [x |-> -1, y |-> 1]
    /\ now >= 3

\* C4: a resize leaves the simulation position, the velocity and the debug
\* flag (and the rendered position and the annotations) as they were.
C4_ResizeKeepsSimulation ==
    [][ (lastOp' = "resize") =>
            /\ posRef' = posRef
            /\ dirRef' = dirRef
            /\ debug' = debug
            /\ renderPos' = renderPos
            /\ debugLines' = debugLines
            /\ lastBounceTimeRef' = lastBounceTimeRef ]_vars

\* After a resize that shrank the viewport below the current position, with
\* debug on and the logo moved away from its start.
C4_Witness ==
    /\ lastOp = "resize" /\ now >= 1 /\ debug
    /\ posRef.x > containerSize.width - LOGO_WIDTH
    /\ containerSize.width > LOGO_WIDTH
    /\ posRef.x # Px(150)

\* C5: every tick computes maxX and maxY, detects corners and places its
\* bursts with the most recently measured container size: the closure it
\* runs, and every closure still pending, captured the current containerSize.
C5_TickUsesLatestSize ==
    /\ \A f \in frames : f.env.containerSize = containerSize
    /\ lastOp = "tick" =>
        /\ tick.env.containerSize = containerSize
        /\ tick.maxX = containerSize.width - LOGO_WIDTH
        /\ tick.maxY = containerSize.height - LOGO_HEIGHT
        /\ \A i \in 1..Len(tick.bursts) :
            /\ tick.bursts[i].origin.xd = containerSize.width
            /\ tick.bursts[i].origin.yd = containerSize.height

\* A tick that fired a burst with bounds a resize had just shrunk: it
\* started below the new maxY after an earlier tick.
C5_Witness ==
    /\ lastOp = "tick" /\ now >= 2
    /\ tick.maxY >= 0 /\ tick.fromY > tick.maxY /\ tick.fromY < Px(150)
    /\ tick.bursts # << >>

\* C6: once the loop is torn down (unmount, or a change of the bounds or of
\* the debug flag), no callback of the torn-down loop is pending and none
\* runs: after an unmount nothing is pending at all.
C6_TornDownLoopNeverRuns ==
    /\ \A f \in frames : ~f.torn
    /\ lastOp = "tick" => ~tick.torn
    /\ ~mounted => frames = {}

\* A tick of a loop restarted with debug on, after an earlier tick: the
\* loop that ran the earlier tick was torn down in between.
C6_Witness ==
    /\ lastOp = "tick" /\ now >= 2
    /\ tick.env.debug

C8_DebugDoesNotAlterPhysics ==
    /\ now = twin.now
    /\ posRef = twin.posRef
    /\ dirRef = twin.dirRef
    /\ renderPos = twin.renderPos
    /\ lastBounceTimeRef = twin.lastBounceTimeRef
    /\ tick.bursts = twin.tick.bursts

\* After a tick that fired a burst in both runs, one run with debug on (its
\* annotations drawn) and the other with debug off, a resize behind them.
C8_Witness ==
    /\ lastOp = "tick" /\ twin.lastOp = "tick" /\ now >= 2
    /\ debug /\ ~twin.debug
    /\ debugLines # << >> /\ twin.debugLines = << >>
    /\ tick.bursts # << >>
    /\ tick.fromX > tick.maxX

\* The fraction n / d lies in [0, 1].
InUnitInterval(n, d) == d > 0 /\ 0 <= n /\ n <= d

\* The position p is exactly the corner c.
AtCorner(p, c) == p.x = c.x /\ p.y = c.y

\* C9: when the position after a tick is exactly one of the four corners and
\* maxX > 12 and maxY > 12, the proximity predicate holds for that corner and
\* for no other, and the tick fires the one burst of that corner.
C9_ExactCornerIsTheOnlyNearCorner ==
    (lastOp = "tick" /\ tick.maxX > Px(12) /\ tick.maxY > Px(12)) =>
        LET cs == Corners(tick.maxX, tick.maxY)
        IN  \A i \in 1..4 :
                AtCorner(posRef, cs[i]) =>
                    /\ \A j \in 1..4 : nearCorner(posRef.x, posRef.y, cs[j]) <=> (j = i)
                    /\ Len(tick.bursts) = 1
                    /\ tick.bursts[1].origin.xn = cs[i].x + LOGO_WIDTH \div 2
                    /\ tick.bursts[1].origin.yn = cs[i].y + LOGO_HEIGHT \div 2

\* A tick that ended exactly at the corner (0, 0) of roomy bounds.
C9_Witness ==
    /\ lastOp = "tick"
    /\ tick.maxX > Px(12) /\ tick.maxY > Px(12)
    /\ posRef = [x |-> 0, y |-> 0]

\* C10 as stated: every burst, of a tick or of the manual key, has its origin
\* in [0,1] x [0,1].
C10_EveryOriginInUnitSquare ==
    \A i \in 1..Len(bursts) :
        /\ InUnitInterval(bursts[i].origin.xn, bursts[i].origin.xd)
        /\ InUnitInterval(bursts[i].origin.yn, bursts[i].origin.yd)

\* C10 amended: the manual burst has origin (1/2, 1/2); a corner burst has
\* origin ((c.x + LOGO_WIDTH/2) / width, (c.y + LOGO_HEIGHT/2) / height) for
\* a near corner c and the size of that tick, which lies in [0,1] x [0,1]
\* when width >= LOGO_WIDTH/2 and height >= LOGO_HEIGHT/2, and outside it
\* for a width or height below that.
C10_OriginOfEveryBurst ==
    /\ lastOp # "tick" =>
        \A i \in 1..Len(bursts) :
            /\ lastOp = "key_c"
            /\ bursts[i].origin = [xn |-> 1, xd |-> 2, yn |-> 1, yd |-> 2]
    /\ lastOp = "tick" =>
        LET size == tick.env.containerSize
            cs == Corners(tick.maxX, tick.maxY)
        IN  \A i \in 1..Len(bursts) :
                LET o == bursts[i].origin
                IN  /\ \E j \in 1..4 :
                        /\ nearCorner(posRef.x, posRef.y, cs[j])
                        /\ o.xn = cs[j].x + LOGO_WIDTH \div 2
                        /\ o.yn = cs[j].y + LOGO_HEIGHT \div 2
                    /\ o.xd = size.width /\ o.yd = size.height
                    /\ InUnitInterval(o.xn, o.xd) <=> 2 * size.width >= LOGO_WIDTH
                    /\ InUnitInterval(o.yn, o.yd) <=> 2 * size.height >= LOGO_HEIGHT

\* A corner burst of a viewport narrower than the logo but not than half of
\* it: degenerate bounds, origin still inside the unit square.
C10_Witness ==
    /\ lastOp = "tick" /\ bursts # << >>
    /\ tick.maxX < 0 /\ tick.maxY < 0
    /\ 2 * tick.env.containerSize.width >= LOGO_WIDTH
    /\ 2 * tick.env.containerSize.height >= LOGO_HEIGHT

\* What no key press changes: the bounds, the position, the velocity, the
\* rendered position, the annotations, the last bounce, the mount.
KeyLeaves ==
    UNCHANGED << containerSize, posRef, dirRef, renderPos, debugLines,
                 lastBounceTimeRef, mounted, now, tick >>

C12_Scenario ==
    LET size == [width |-> Px(600) + LOGO_WIDTH, height |-> Px(400) + LOGO_HEIGHT]
        a == Advance(size, [x |-> Px(598), y |-> Px(2)], [x |-> 1, y |-> -1])
    IN  /\ a.maxX = Px(600) /\ a.maxY = Px(400)
        /\ 4 * a.x = Px(2395) /\ 4 * a.y = Px(5)
        /\ a.dx = 1 /\ a.dy = -1
        /\ ~a.bounced

\* C12: a tick whose advanced coordinates x + dx*SPEED and y + dy*SPEED lie
\* strictly inside (0, maxX) and (0, maxY) stores exactly them, leaves the
\* velocity as it was and records no bounce; so does the scenario.
C12_InteriorTick ==
    [][ /\ C12_Scenario
        /\ LET ax == posRef.x + dirRef.x * SPEED
               ay == posRef.y + dirRef.y * SPEED
           IN  ( /\ now' = now + 1
                 /\ 0 < ax /\ ax < tick'.maxX
                 /\ 0 < ay /\ ay < tick'.maxY )
               => /\ posRef' = [x |-> ax, y |-> ay]
                  /\ dirRef' = dirRef
                  /\ lastBounceTimeRef' = lastBounceTimeRef
                  /\ ~tick'.bounced ]_vars

\* An interior tick heading up and to the right after earlier bounces.
C12_Witness ==
    /\ lastOp = "tick" /\ ~tick.bounced
    /\ lastBounceTimeRef > 0 /\ lastBounceTimeRef < now
    /\ dirRef = [x |-> 1, y |-> -1]

\* C13: in a tick, for each axis on its own: an advanced coordinate <= 0
\* becomes 0 and the axis's sign is inverted; otherwise one >= max becomes
\* max and the sign is inverted; both axes may do so in the same tick.
C13_RebondPerAxis ==
    [][ LET ax == posRef.x + dirRef.x * SPEED
            ay == posRef.y + dirRef.y * SPEED
        IN  now' = now + 1 =>
              /\ ax <= 0 => (posRef'.x = 0 /\ dirRef'.x = -dirRef.x)
              /\ (ax > 0 /\ ax >= tick'.maxX) =>
                    (posRef'.x = tick'.maxX /\ dirRef'.x = -dirRef.x)
              /\ ay <= 0 => (posRef'.y = 0 /\ dirRef'.y = -dirRef.y)
              /\ (ay > 0 /\ ay >= tick'.maxY) =>
                    (posRef'.y = tick'.maxY /\ dirRef'.y = -dirRef.y) ]_vars

\* A tick, not the first, in which both axes rebounded off their max, in
\* bounds wider and higher than the logo: both signs were inverted.
C13_Witness ==
    /\ lastOp = "tick" /\ now >= 2
    /\ tick.maxX > 0 /\ tick.maxY > 0
    /\ tick.advX >= tick.maxX /\ posRef.x = tick.maxX
    /\ tick.advY >= tick.maxY /\ posRef.y = tick.maxY
    /\ dirRef = [x |-> -1, y |-> -1]

\* The corners, by index, near the position p for the bounds maxX, maxY.
NearCorners(p, maxX, maxY) ==
    {j \in 1..4 : nearCorner(p.x, p.y, Corners(maxX, maxY)[j])}

\* C14: a tick fires as many corner bursts as there are corners near its
\* post-collision position, one for each of them and none otherwise; this
\* holds of every tick, so of each consecutive tick spent near a corner.
C14_OneBurstPerNearCorner ==
    lastOp = "tick" =>
        LET cs == Corners(tick.maxX, tick.maxY)
            near == NearCorners(posRef, tick.maxX, tick.maxY)
        IN  /\ bursts = tick.bursts
            /\ Len(bursts) = Cardinality(near)
            /\ \A j \in near : \E i \in 1..Len(bursts) :
                    /\ bursts[i].origin.xn = cs[j].x + LOGO_WIDTH \div 2
                    /\ bursts[i].origin.yn = cs[j].y + LOGO_HEIGHT \div 2

\* A tick, not the first, that started inside tiny bounds, within the
\* threshold of all four corners, and fired four bursts.
C14_Witness ==
    /\ lastOp = "tick" /\ now >= 2
    /\ Len(bursts) = 4
    /\ 0 <= tick.fromX /\ tick.fromX <= tick.maxX
    /\ 0 <= tick.fromY /\ tick.fromY <= tick.maxY

\* A tick far from every corner: no burst.
C14_NoBurstReached ==
    /\ lastOp = "tick" /\ bursts = << >>
    /\ NearCorners(posRef, tick.maxX, tick.maxY) = {}

\* C15: at most one animation-frame callback is pending, it is the one
\* rafRef holds and it belongs to the loop of the current render: posRef and
\* dirRef have one writer.  While mounted exactly one is pending.
C15_SingleLoop ==
    /\ Cardinality(frames) <= 1
    /\ \A f \in frames :
        /\ f.id = rafRef
        /\ f.env.containerSize = containerSize
        /\ f.env.debug = debug
    /\ mounted => Cardinality(frames) = 1

\* One callback pending after ticks, a debug toggle and a resize: the loop
\* has been restarted at least twice.
C15_Witness ==
    /\ mounted /\ Cardinality(frames) = 1
    /\ lastOp = "resize" /\ now >= 2
    /\ debug /\ debugLines # << >>
    /\ tick.env.containerSize # containerSize

\* C16: as long as the component stays mounted, ticks keep happening: in
\* every behaviour in which it is never unmounted, animate() runs again after
\* every state (the parity of the frame count keeps changing), whatever
\* resizes and key presses come in between.
C16_TicksKeepHappening ==
    /\ []<>(~mounted \/ now = 0)
    /\ []<>(~mounted \/ now = 1)

\* A resize and a debug toggle have restarted the loop and it is pending.
C16_Witness ==
    /\ mounted /\ frames # {}
    /\ lastOp = "key_d" /\ debug
    /\ tick.env.containerSize # containerSize
    /\ lastBounceTimeRef = 2

\* C17: when the zone is narrower than the logo on an axis (max < 0), every
\* tick takes a bounce branch on that axis: the coordinate ends at 0 or at
\* max, the direction of the axis is inverted, the bounce is timestamped, and
\* the coordinate is outside the range 0..max.  For x and for y alike.
C17_DegenerateBoundsBounceEveryTick ==
    [][ now' = now + 1 =>
          /\ tick'.maxX < 0 =>
                /\ posRef'.x \in {0, tick'.maxX}
                /\ dirRef'.x = -dirRef.x
                /\ tick'.bounced /\ lastBounceTimeRef' = now'
                /\ ~(0 <= posRef'.x /\ posRef'.x <= tick'.maxX)
          /\ tick'.maxY < 0 =>
                /\ posRef'.y \in {0, tick'.maxY}
                /\ dirRef'.y = -dirRef.y
                /\ tick'.bounced /\ lastBounceTimeRef' = now'
                /\ ~(0 <= posRef'.y /\ posRef'.y <= tick'.maxY) ]_vars

\* Three ticks in a row in a zone narrower and lower than the logo: the
\* logo has gone to max, back to 0, and to max again on both axes.
C17_Witness ==
    /\ lastOp = "tick" /\ now >= 3
    /\ tick.maxX < 0 /\ tick.maxY < 0
    /\ posRef = [x |-> tick.maxX, y |-> tick.maxY]
    /\ tick.fromX = 0 /\ tick.fromY = 0
    /\ dirRef = [x |-> -1, y |-> -1]

\* C18: in viewports larger than the logo (maxX > 0 and maxY > 0), after a
\* tick in which an axis bounced the direction of that axis points back into
\* the viewport: +1 if the coordinate was clamped to 0, -1 if it was clamped
\* to max.
C18_BounceTurnsInward ==
    (lastOp = "tick" /\ tick.maxX > 0 /\ tick.maxY > 0) =>
        /\ tick.advX <= 0 => (posRef.x = 0 /\ dirRef.x = 1)
        /\ (tick.advX > 0 /\ tick.advX >= tick.maxX) =>
                (posRef.x = tick.maxX /\ dirRef.x = -1)
        /\ tick.advY <= 0 => (posRef.y = 0 /\ dirRef.y = 1)
        /\ (tick.advY > 0 /\ tick.advY >= tick.maxY) =>
                (posRef.y = tick.maxY /\ dirRef.y = -1)

\* C19: the rendered position is written by ticks only, once per tick and
\* with the simulation position the tick ends with; a resize, a key press,
\* an unmount and the loop restarts they cause leave it as it was.
C19_RenderedPositionFollowsTicks ==
    [][ /\ now' = now + 1 => renderPos' = posRef'
        /\ now' = now => (renderPos' = renderPos /\ posRef' = posRef) ]_vars

\* A resize that restarted the loop after the debug key and after a tick
\* that moved the logo: the rendered position is still where that tick put it.
C19_Witness ==
    /\ lastOp = "resize" /\ mounted /\ debug
    /\ now >= 2
    /\ containerSize # tick.env.containerSize
    /\ renderPos = posRef
    /\ renderPos # [x |-> Px(150), y |-> Px(150)]

====
